---- MODULE Spec2Model ----
(***************************************************************************)
(* Model of near-sdk/src/promise.rs: the Promise builder (a handle over a  *)
(* host-side batch of actions), its composition operators `and`/`then`,    *)
(* the return mark, and the serializers of Promise and PromiseOrValue<T>.  *)
(*                                                                         *)
(* The host (crate::env) is seen through the calls the builder issues:     *)
(* hostLog is the sequence of env calls with the value each one returned.  *)
(***************************************************************************)
EXTENDS Integers, Sequences, FiniteSets, TLC

\* ------------------------------------------------------------------ bounds
\* Builder / serializer calls made by one contract method call.
MaxOps == 4
\* Promise indices the host hands out during one contract method call.
MaxPromises == 3
\* The same two budgets for the method calls that only compose handles.
MaxComposeOps == 7
MaxComposePromises == 7
\* And for the method calls whose promise graph the host then executes.
MaxExecOps == 5
MaxExecPromises == 5
\* The key-adding methods alone.
MaxKeyOps == 5
MaxKeyPromises == 1

\* ------------------------------------------------------------------ inputs
\* The arguments the method body passes to each builder method.
AccountIds == {"bob_near", "carol_near"}
\* deploy_contract(code)
DeployInputs == { <<0, 97, 115, 109>> }
\* function_call(function_name, arguments, amount, gas)
FunctionCallInputs == { <<"set", <<123, 125>>, 3, 7>> }
\* transfer(amount)
TransferInputs == {0, 1000}
\* stake(amount, public_key)
StakeInputs == { <<1000, "ed25519:k1">> }
\* add_full_access_key(public_key), delete_key(public_key)
PublicKeys == {"ed25519:k2"}
\* add_full_access_key_with_nonce(public_key, nonce)
FullAccessNonceInputs == { <<"ed25519:k1", 7>> }
\* add_access_key(public_key, allowance, receiver_id, function_names)
AccessKeyInputs == { <<"ed25519:k1", 5, "bob_near", "method_a,method_b">> }
\* add_access_key_with_nonce(public_key, allowance, receiver_id, function_names, nonce)
AccessKeyNonceInputs == { <<"ed25519:k2", 5, "carol_near", "method_a", 7>> }
\* delete_account(beneficiary_id)
Beneficiaries == {"carol_near"}

\* ------------------------------------------------------------------ values
\* PromiseSubtype::Single(x) / PromiseSubtype::Joint(x)
Single(x) == [tag |-> "Single", x |-> x]
Joint(x) == [tag |-> "Joint", x |-> x]

\* PromiseSubtype::index
index(subtype) == subtype.x

\* struct Promise { index, should_return }
Promise(subtype, flag) == [index |-> subtype, should_return |-> flag]

\* Placeholder in a trace entry that carries no Promise.
NoPromise == [index |-> [tag |-> "None", x |-> 0], should_return |-> FALSE]

\* Value returned by an env call that returns nothing.
NoIndex == -1

\* The parameters of one builder call / one env call; unused ones keep these.
NoArgs ==
    [ account_id |-> "", code |-> <<>>, function_name |-> "", arguments |-> <<>>,
      amount |-> 0, gas |-> 0, public_key |-> "", nonce |-> 0, allowance |-> 0,
      receiver_id |-> "", function_names |-> "", beneficiary_id |-> "",
      message |-> "" ]

\* One env call as the host sees it: the function, the promise indices passed,
\* the other parameters, and the promise index the host returned (or NoIndex).
HostCall(fn, promise_idx, args, ret) ==
    [fn |-> fn, promise_idx |-> promise_idx, args |-> args, ret |-> ret]

\* A value of the T of PromiseOrValue<T>: u32, String, or a type whose
\* BorshSerialize / serde::Serialize implementation returns an error.
Values ==
    { [ty |-> "u32", n |-> 300, s |-> <<>>],
      [ty |-> "String", n |-> 0, s |-> <<104, 105>>],
      [ty |-> "failing", n |-> 0, s |-> <<>>] }
NoValue == [ty |-> "none", n |-> 0, s |-> <<>>]

VARIABLES
    promises,   \* the Promise values the method body currently owns
    hostLog,    \* env calls issued so far, in order
    writer,     \* bytes written to the output writer so far
    aborted,    \* env::panic_str was called: the method call is over
    returned,   \* the method body has returned; its Promise values were dropped
    started,    \* host side: promise indices whose execution has begun
    completed,  \* host side: promise indices whose execution has finished
    trace,      \* history of the builder / serializer calls made, with results
    definitions, \* the borsh schema definitions map being filled
    described   \* the latest BorshSchema call made and what it answered

vars ==
    <<promises, hostLog, writer, aborted, returned, started, completed, trace,
      definitions, described>>

\* ------------------------------------------------------------ host (env)
CreatingFns == {"promise_batch_create", "promise_batch_then", "promise_and"}

\* The indices the host has returned so far.
HostIndices == { hostLog[i].ret : i \in { j \in 1..Len(hostLog) : hostLog[j].ret # NoIndex } }

\* The host numbers promises in creation order.
NextIndex == Cardinality(HostIndices)

\* The abort message of action_index.
JointMessage == "Cannot add action to a joint promise."

\* ------------------------------------------------------------ trace
Entry(op, self, other, args, value, ret, wrote, result) ==
    [ op |-> op, self |-> self, other |-> other, args |-> args, value |-> value,
      ret |-> ret, wrote |-> wrote, result |-> result, host_before |-> Len(hostLog) ]

\* The method body is still executing.
Running == ~aborted /\ ~returned

Replace(p, q) == (promises \ {p}) \cup {q}

Init ==
    /\ promises = {}
    /\ hostLog = <<>>
    /\ writer = <<>>
    /\ aborted = FALSE
    /\ returned = FALSE
    /\ started = {}
    /\ completed = {}
    /\ trace = <<>>
    /\ definitions = {}
    /\ described = [of |-> "none", ty |-> "nil", holds |-> "none", declaration |-> "",
                    before |-> {}]

\* ------------------------------------------------------------ Promise::new
new(account_id) ==
    /\ Running
    /\ LET idx == NextIndex
           p == Promise(Single(idx), FALSE)
       IN  /\ hostLog' = Append(hostLog,
                  HostCall("promise_batch_create", <<>>,
                           [NoArgs EXCEPT !.account_id = account_id], idx))
           /\ promises' = promises \cup {p}
           /\ trace' = Append(trace,
                  Entry("new", NoPromise, NoPromise,
                        [NoArgs EXCEPT !.account_id = account_id], NoValue, p, <<>>, "Ok"))
    /\ UNCHANGED <<writer, aborted, returned, started, completed, definitions, described>>

\* ------------------------------------------------------------ action_index
\* Single(x) => x; Joint(_) => env::panic_str(..), which does not return.
\* Variant: the Joint arm hands out the index instead of aborting.
action_index_unchecked(p) == [panics |-> FALSE, x |-> p.index.x]

action_index(p) ==
    IF p.index.tag = "Single"
    THEN [panics |-> FALSE, x |-> p.index.x]
    ELSE [panics |-> TRUE, x |-> NoIndex]

\* The common shape of the action-append methods:
\*     crate::env::promise_batch_action_<fn>(self.action_index(), <args>); self
\* The argument self.action_index() is evaluated before the env call is made.
\* Variant: the method hands back a handle built anew, with the mark cleared.
append_returns_unmarked(p) == [p EXCEPT !.should_return = FALSE]

\* The trailing `self`: the method hands back the handle it was called on.
append_returns(p) == p

BatchAction(p, op, given, fn, args) ==
    /\ Running
    /\ p \in promises
    /\ LET ai == action_index(p)
       IN  IF ai.panics
           THEN /\ hostLog' = Append(hostLog,
                       HostCall("panic_str", <<>>,
                                [NoArgs EXCEPT !.message = JointMessage], NoIndex))
                /\ aborted' = TRUE
                /\ promises' = promises
                /\ trace' = Append(trace,
                       Entry(op, p, NoPromise, given, NoValue, NoPromise, <<>>, "abort"))
           ELSE /\ hostLog' = Append(hostLog, HostCall(fn, <<ai.x>>, args, NoIndex))
                /\ aborted' = aborted
                /\ promises' = Replace(p, append_returns(p))
                /\ trace' = Append(trace,
                       Entry(op, p, NoPromise, given, NoValue, append_returns(p), <<>>, "Ok"))
    /\ UNCHANGED <<writer, returned, started, completed, definitions, described>>

create_account(p) ==
    BatchAction(p, "create_account", NoArgs,
                "promise_batch_action_create_account", NoArgs)

deploy_contract(p, code) ==
    BatchAction(p, "deploy_contract", [NoArgs EXCEPT !.code = code],
                "promise_batch_action_deploy_contract", [NoArgs EXCEPT !.code = code])

\* Variant: amount and gas passed to the host in each other's place.
function_call_swapped(p, function_name, arguments, amount, gas) ==
    BatchAction(p, "function_call",
                [NoArgs EXCEPT !.function_name = function_name, !.arguments = arguments,
                               !.amount = amount, !.gas = gas],
                "promise_batch_action_function_call",
                [NoArgs EXCEPT !.function_name = function_name, !.arguments = arguments,
                               !.amount = gas, !.gas = amount])

function_call(p, function_name, arguments, amount, gas) ==
    BatchAction(p, "function_call",
                [NoArgs EXCEPT !.function_name = function_name, !.arguments = arguments,
                               !.amount = amount, !.gas = gas],
                "promise_batch_action_function_call",
                [NoArgs EXCEPT !.function_name = function_name, !.arguments = arguments,
                               !.amount = amount, !.gas = gas])

transfer(p, amount) ==
    BatchAction(p, "transfer", [NoArgs EXCEPT !.amount = amount],
                "promise_batch_action_transfer", [NoArgs EXCEPT !.amount = amount])

stake(p, amount, public_key) ==
    BatchAction(p, "stake",
                [NoArgs EXCEPT !.amount = amount, !.public_key = public_key],
                "promise_batch_action_stake",
                [NoArgs EXCEPT !.amount = amount, !.public_key = public_key])

add_full_access_key(p, public_key) ==
    BatchAction(p, "add_full_access_key", [NoArgs EXCEPT !.public_key = public_key],
                "promise_batch_action_add_key_with_full_access",
                [NoArgs EXCEPT !.public_key = public_key, !.nonce = 0])

add_full_access_key_with_nonce(p, public_key, nonce) ==
    BatchAction(p, "add_full_access_key_with_nonce",
                [NoArgs EXCEPT !.public_key = public_key, !.nonce = nonce],
                "promise_batch_action_add_key_with_full_access",
                [NoArgs EXCEPT !.public_key = public_key, !.nonce = nonce])

add_access_key(p, public_key, allowance, receiver_id, function_names) ==
    BatchAction(p, "add_access_key",
                [NoArgs EXCEPT !.public_key = public_key, !.allowance = allowance,
                               !.receiver_id = receiver_id,
                               !.function_names = function_names],
                "promise_batch_action_add_key_with_function_call",
                [NoArgs EXCEPT !.public_key = public_key, !.nonce = 0,
                               !.allowance = allowance, !.receiver_id = receiver_id,
                               !.function_names = function_names])

\* Variant: the nonce and the allowance handed to the env call in each other's place.
add_access_key_with_nonce_swapped(p, public_key, allowance, receiver_id, function_names, nonce) ==
    BatchAction(p, "add_access_key_with_nonce",
                [NoArgs EXCEPT !.public_key = public_key, !.allowance = allowance,
                               !.receiver_id = receiver_id,
                               !.function_names = function_names, !.nonce = nonce],
                "promise_batch_action_add_key_with_function_call",
                [NoArgs EXCEPT !.public_key = public_key, !.nonce = allowance,
                               !.allowance = nonce, !.receiver_id = receiver_id,
                               !.function_names = function_names])

add_access_key_with_nonce(p, public_key, allowance, receiver_id, function_names, nonce) ==
    BatchAction(p, "add_access_key_with_nonce",
                [NoArgs EXCEPT !.public_key = public_key, !.allowance = allowance,
                               !.receiver_id = receiver_id,
                               !.function_names = function_names, !.nonce = nonce],
                "promise_batch_action_add_key_with_function_call",
                [NoArgs EXCEPT !.public_key = public_key, !.nonce = nonce,
                               !.allowance = allowance, !.receiver_id = receiver_id,
                               !.function_names = function_names])

delete_key(p, public_key) ==
    BatchAction(p, "delete_key", [NoArgs EXCEPT !.public_key = public_key],
                "promise_batch_action_delete_key",
                [NoArgs EXCEPT !.public_key = public_key])

delete_account(p, beneficiary_id) ==
    BatchAction(p, "delete_account", [NoArgs EXCEPT !.beneficiary_id = beneficiary_id],
                "promise_batch_action_delete_account",
                [NoArgs EXCEPT !.beneficiary_id = beneficiary_id])

\* ------------------------------------------------------------ Promise::and
\* Joint(env::promise_and(&[self.index.index(), other.index.index()])); both
\* operands are taken by value.
\* Variant: the index of `self` passed for both operands.
and_indices_self_twice(self, other) == <<index(self.index), index(self.index)>>

\* Variant: the two indices in the other order.
and_indices_swapped(self, other) == <<index(other.index), index(self.index)>>

and_indices(self, other) == <<index(self.index), index(other.index)>>

\* Variant: `other` taken by reference, so the caller keeps it.
and_moves_self_only(self, other) == {self}

\* `self` and `other: Promise` are passed by value: both are moved into the call.
and_moves(self, other) == {self, other}

\* Variant: the joint handle starts marked when an operand was.
and_should_return_inherited(self, other) == self.should_return \/ other.should_return

\* should_return: RefCell::new(false)
and_should_return(self, other) == FALSE

and(self, other) ==
    /\ Running
    /\ self \in promises
    /\ other \in promises
    /\ self # other
    /\ LET idx == NextIndex
           p == Promise(Joint(idx), and_should_return(self, other))
       IN  /\ hostLog' = Append(hostLog,
                  HostCall("promise_and", and_indices(self, other), NoArgs, idx))
           /\ promises' = (promises \ and_moves(self, other)) \cup {p}
           /\ trace' = Append(trace,
                  Entry("and", self, other, NoArgs, NoValue, p, <<>>, "Ok"))
    /\ UNCHANGED <<writer, aborted, returned, started, completed, definitions, described>>

\* ------------------------------------------------------------ Promise::then
\* Single(env::promise_batch_then(self.index.index(), other)); self is taken
\* by value.
then_index(self) == index(self.index)

\* Variant: the new handle takes the subtype of its predecessor.
then_subtype_inherited(self, x) == [self.index EXCEPT !.x = x]

\* The subtype of the handle `then` returns.
then_subtype(self, x) == Single(x)

\* should_return: RefCell::new(false)
then_should_return(self) == FALSE

then(self, account_id) ==
    /\ Running
    /\ self \in promises
    /\ LET idx == NextIndex
           p == Promise(then_subtype(self, idx), then_should_return(self))
       IN  /\ hostLog' = Append(hostLog,
                  HostCall("promise_batch_then", <<then_index(self)>>,
                           [NoArgs EXCEPT !.account_id = account_id], idx))
           /\ promises' = (promises \ {self}) \cup {p}
           /\ trace' = Append(trace,
                  Entry("then", self, NoPromise,
                        [NoArgs EXCEPT !.account_id = account_id], NoValue, p, <<>>, "Ok"))
    /\ UNCHANGED <<writer, aborted, returned, started, completed, definitions, described>>

\* ------------------------------------------------------------ Promise::as_return
\* Variant: one return mark shared by every handle the body holds.
as_return_shared(self) ==
    /\ Running
    /\ self \in promises
    /\ LET p == [self EXCEPT !.should_return = TRUE]
       IN  /\ promises' = { [q EXCEPT !.should_return = TRUE] : q \in promises }
           /\ trace' = Append(trace,
                  Entry("as_return", self, NoPromise, NoArgs, NoValue, p, <<>>, "Ok"))
    /\ UNCHANGED <<hostLog, writer, aborted, returned, started, completed, definitions, described>>

as_return(self) ==
    /\ Running
    /\ self \in promises
    /\ LET p == [self EXCEPT !.should_return = TRUE]
       IN  /\ promises' = Replace(self, p)
           /\ trace' = Append(trace,
                  Entry("as_return", self, NoPromise, NoArgs, NoValue, p, <<>>, "Ok"))
    /\ UNCHANGED <<hostLog, writer, aborted, returned, started, completed, definitions, described>>

\* ------------------------------------------------------------ encodings
\* Little-endian bytes of n, `width` bytes wide (borsh integers).
RECURSIVE le_bytes(_, _)
le_bytes(n, width) ==
    IF width = 0 THEN <<>> ELSE <<n % 256>> \o le_bytes(n \div 256, width - 1)

\* ASCII decimal digits of n (serde_json integers).
RECURSIVE decimal(_)
decimal(n) ==
    IF n < 10 THEN <<48 + n>> ELSE decimal(n \div 10) \o <<48 + (n % 10)>>

\* x.serialize(writer) of borsh::BorshSerialize for the T of PromiseOrValue<T>.
borsh_value(x) ==
    CASE x.ty = "u32" -> [wrote |-> le_bytes(x.n, 4), result |-> "Ok"]
      [] x.ty = "String" -> [wrote |-> le_bytes(Len(x.s), 4) \o x.s, result |-> "Ok"]
      [] OTHER -> [wrote |-> <<>>, result |-> "Err"]

\* x.serialize(serializer) of serde::Serialize with the JSON serializer.
json_value(x) ==
    CASE x.ty = "u32" -> [wrote |-> decimal(x.n), result |-> "Ok"]
      [] x.ty = "String" -> [wrote |-> <<34>> \o x.s \o <<34>>, result |-> "Ok"]
      [] OTHER -> [wrote |-> <<>>, result |-> "Err"]

\* serializer.serialize_unit() with the JSON serializer: the text null.
serialize_unit == <<110, 117, 108, 108>>

\* ------------------------------------------------------------ serializers
\* What a serialize call does: the flag it leaves on the Promise it was given
\* (flag), the bytes it writes and its result.
\* Variant: the serializer leaves should_return as it was.
promise_serde_serialize_unmarked(self) ==
    [flag |-> self.should_return, wrote |-> serialize_unit, result |-> "Ok"]

\* impl serde::Serialize for Promise
promise_serde_serialize(self) ==
    [flag |-> TRUE, wrote |-> serialize_unit, result |-> "Ok"]

\* Variant: the serializer leaves should_return as it was.
promise_borsh_serialize_unmarked(self) ==
    [flag |-> self.should_return, wrote |-> <<>>, result |-> "Ok"]

\* impl borsh::BorshSerialize for Promise
promise_borsh_serialize(self) ==
    [flag |-> TRUE, wrote |-> <<>>, result |-> "Ok"]

\* enum PromiseOrValue<T> { Promise(Promise), Value(T) }
PovPromise(p) == [variant |-> "Promise", promise |-> p, value |-> NoValue]
PovValue(x) == [variant |-> "Value", promise |-> NoPromise, value |-> x]

\* impl From<Promise> for PromiseOrValue<T>
from(promise) == PovPromise(promise)

\* The wrappers the method body can hold.
PromiseOrValues == { from(p) : p \in promises } \cup { PovValue(x) : x \in Values }

\* Variant: the derived enum encoding, which writes the variant index first.
pov_borsh_serialize_tagged(self) ==
    IF self.variant = "Value"
    THEN [ flag |-> self.promise.should_return,
           wrote |-> <<1>> \o borsh_value(self.value).wrote,
           result |-> borsh_value(self.value).result ]
    ELSE promise_borsh_serialize(self.promise)

\* impl borsh::BorshSerialize for PromiseOrValue<T>
pov_borsh_serialize(self) ==
    IF self.variant = "Value"
    THEN [flag |-> self.promise.should_return] @@ borsh_value(self.value)
    ELSE promise_borsh_serialize(self.promise)

\* #[derive(serde::Serialize)] #[serde(untagged)] on PromiseOrValue<T>
pov_serde_serialize(self) ==
    IF self.variant = "Value"
    THEN [flag |-> self.promise.should_return] @@ json_value(self.value)
    ELSE promise_serde_serialize(self.promise)

\* Variant: serializing a Promise also asks the host to return it.
SerializeCall_returning(op, p, value, out) ==
    /\ Running
    /\ LET q == [p EXCEPT !.should_return = out.flag]
       IN  /\ promises' = IF p \in promises THEN Replace(p, q) ELSE promises
           /\ writer' = writer \o out.wrote
           /\ hostLog' = IF p \in promises
                         THEN Append(hostLog,
                                  HostCall("promise_return", <<index(p.index)>>, NoArgs, NoIndex))
                         ELSE hostLog
           /\ trace' = Append(trace,
                  Entry(op, p, NoPromise, NoArgs, value, q, out.wrote, out.result))
    /\ UNCHANGED <<aborted, returned, started, completed, definitions, described>>

\* A serialize(&self, ..) call on a Promise the body holds, or on a wrapper.
SerializeCall(op, p, value, out) ==
    /\ Running
    /\ LET q == [p EXCEPT !.should_return = out.flag]
       IN  /\ promises' = IF p \in promises THEN Replace(p, q) ELSE promises
           /\ writer' = writer \o out.wrote
           /\ trace' = Append(trace,
                  Entry(op, p, NoPromise, NoArgs, value, q, out.wrote, out.result))
    /\ UNCHANGED <<hostLog, aborted, returned, started, completed, definitions, described>>

PromiseBorshSerialize(p) ==
    /\ p \in promises
    /\ SerializeCall("Promise::borsh_serialize", p, NoValue, promise_borsh_serialize(p))

PromiseSerdeSerialize(p) ==
    /\ p \in promises
    /\ SerializeCall("Promise::serde_serialize", p, NoValue, promise_serde_serialize(p))

PromiseOrValueBorshSerialize(pov) ==
    /\ pov \in PromiseOrValues
    /\ SerializeCall("PromiseOrValue::borsh_serialize", pov.promise, pov.value,
                     pov_borsh_serialize(pov))

PromiseOrValueSerdeSerialize(pov) ==
    /\ pov \in PromiseOrValues
    /\ SerializeCall("PromiseOrValue::serde_serialize", pov.promise, pov.value,
                     pov_serde_serialize(pov))

\* ------------------------------------------------------------ BorshSchema
\* The types T whose schema is asked for. A declaration is the type's name; the
\* definitions map is a set of <<declaration, definition>> pairs.
Types ==
    { "nil", "u32", "string", "Vec<u32>", "Vec<string>", "Option<u32>",
      "Option<Vec<u32>>" }

\* T::declaration()
t_declaration(T) == T

\* T::add_definitions_recursively(definitions): the definition of T and of the
\* types T is made of; unit, integers and strings add none.
t_add_definitions_recursively(T, defs) ==
    defs \cup
    CASE T = "Vec<u32>" -> { <<"Vec<u32>", "Sequence{u32}">> }
      [] T = "Vec<string>" -> { <<"Vec<string>", "Sequence{string}">> }
      [] T = "Option<u32>" -> { <<"Option<u32>", "Enum{None:nil,Some:u32}">> }
      [] T = "Option<Vec<u32>>" ->
             { <<"Option<Vec<u32>>", "Enum{None:nil,Some:Vec<u32>}">>,
               <<"Vec<u32>", "Sequence{u32}">> }
      [] OTHER -> {}

\* impl BorshSchema for Promise: the schema of the unit type.
promise_declaration == t_declaration("nil")
promise_add_definitions_recursively(defs) == t_add_definitions_recursively("nil", defs)

\* Variant: the declaration a derived schema of the enum would give.
pov_declaration_derived(T) == "PromiseOrValue"

\* impl BorshSchema for PromiseOrValue<T>
pov_declaration(T) == t_declaration(T)

pov_add_definitions_recursively(T, defs) == t_add_definitions_recursively(T, defs)

Describe(of, T, holds, declaration, defs) ==
    /\ definitions' = defs
    /\ described' = [of |-> of, ty |-> T, holds |-> holds, declaration |-> declaration,
                     before |-> definitions]
    /\ UNCHANGED <<promises, hostLog, writer, aborted, returned, started, completed,
                   trace>>

\* The schema of T itself.
DescribeValue(T) ==
    Describe("T", T, "none", t_declaration(T),
             t_add_definitions_recursively(T, definitions))

\* The schema of Promise.
DescribePromise ==
    Describe("Promise", "nil", "none", promise_declaration,
             promise_add_definitions_recursively(definitions))

\* The schema of PromiseOrValue<T>, asked for while the value at hand holds the
\* variant `holds`; the schema functions take no value.
DescribePromiseOrValue(T, holds) ==
    Describe("PromiseOrValue", T, holds, pov_declaration(T),
             pov_add_definitions_recursively(T, definitions))

NextSchema ==
    \/ \E T \in Types : DescribeValue(T)
    \/ DescribePromise
    \/ \E T \in Types, holds \in {"Promise", "Value"} : DescribePromiseOrValue(T, holds)

SpecSchema == Init /\ [][NextSchema]_vars

\* ------------------------------------------------------------ end of the call
\* The method body returns and every Promise it still owns is dropped. Promise
\* has no Drop implementation and nothing reads should_return: no env call.
EndCall ==
    /\ ~aborted
    /\ ~returned
    /\ returned' = TRUE
    /\ UNCHANGED <<promises, hostLog, writer, aborted, started, completed, trace, definitions, described>>

\* ------------------------------------------------------------ specification
\* Budget of one method call: calls made, promise indices handed out.
Within(maxOps) == Len(trace) < maxOps
Fresh(maxPromises) == NextIndex < maxPromises

Next ==
    \/ \E a \in AccountIds : Within(MaxOps) /\ Fresh(MaxPromises) /\ new(a)
    \/ \E p \in promises : Within(MaxOps) /\ create_account(p)
    \/ \E p \in promises, code \in DeployInputs : Within(MaxOps) /\ deploy_contract(p, code)
    \/ \E p \in promises, i \in FunctionCallInputs :
           Within(MaxOps) /\ function_call(p, i[1], i[2], i[3], i[4])
    \/ \E p \in promises, amount \in TransferInputs : Within(MaxOps) /\ transfer(p, amount)
    \/ \E p \in promises, i \in StakeInputs : Within(MaxOps) /\ stake(p, i[1], i[2])
    \/ \E p \in promises, pk \in PublicKeys : Within(MaxOps) /\ add_full_access_key(p, pk)
    \/ \E p \in promises, i \in FullAccessNonceInputs :
           Within(MaxOps) /\ add_full_access_key_with_nonce(p, i[1], i[2])
    \/ \E p \in promises, i \in AccessKeyInputs :
           Within(MaxOps) /\ add_access_key(p, i[1], i[2], i[3], i[4])
    \/ \E p \in promises, i \in AccessKeyNonceInputs :
           Within(MaxOps) /\ add_access_key_with_nonce(p, i[1], i[2], i[3], i[4], i[5])
    \/ \E p \in promises, pk \in PublicKeys : Within(MaxOps) /\ delete_key(p, pk)
    \/ \E p \in promises, a \in Beneficiaries : Within(MaxOps) /\ delete_account(p, a)
    \/ \E a, b \in promises : Within(MaxOps) /\ Fresh(MaxPromises) /\ and(a, b)
    \/ \E p \in promises, a \in AccountIds :
           Within(MaxOps) /\ Fresh(MaxPromises) /\ then(p, a)
    \/ \E p \in promises : Within(MaxOps) /\ as_return(p)
    \/ \E p \in promises : Within(MaxOps) /\ PromiseBorshSerialize(p)
    \/ \E p \in promises : Within(MaxOps) /\ PromiseSerdeSerialize(p)
    \/ \E pov \in PromiseOrValues : Within(MaxOps) /\ PromiseOrValueBorshSerialize(pov)
    \/ \E pov \in PromiseOrValues : Within(MaxOps) /\ PromiseOrValueSerdeSerialize(pov)
    \/ EndCall

Spec == Init /\ [][Next]_vars

\* Method calls that build promise graphs: handles are created, given an action,
\* marked, joined and chained, to a greater depth than Next allows.
ComposeAccounts == {"bob_near"}

NextCompose ==
    \/ \E a \in ComposeAccounts :
           Within(MaxComposeOps) /\ Fresh(MaxComposePromises) /\ new(a)
    \/ \E p \in promises : Within(MaxComposeOps) /\ create_account(p)
    \/ \E a, b \in promises :
           Within(MaxComposeOps) /\ Fresh(MaxComposePromises) /\ and(a, b)
    \/ \E p \in promises, a \in ComposeAccounts :
           Within(MaxComposeOps) /\ Fresh(MaxComposePromises) /\ then(p, a)
    \/ \E p \in promises : Within(MaxComposeOps) /\ as_return(p)
    \/ EndCall

SpecCompose == Init /\ [][NextCompose]_vars

\* The key-adding methods alone, with and without an explicit nonce, over nonces
\* and allowances that include 0 and differ from each other.
KeyAccounts == {"bob_near"}
KeyPublicKeys == {"ed25519:k1"}
KeyNonces == {0, 7}
KeyAllowances == {0, 5}
KeyReceivers == {"bob_near"}
KeyFunctionNames == {"method_a,method_b"}

NextKeys ==
    \/ \E a \in KeyAccounts : Within(MaxKeyOps) /\ Fresh(MaxKeyPromises) /\ new(a)
    \/ \E p \in promises, pk \in KeyPublicKeys :
           Within(MaxKeyOps) /\ add_full_access_key(p, pk)
    \/ \E p \in promises, pk \in KeyPublicKeys, nonce \in KeyNonces :
           Within(MaxKeyOps) /\ add_full_access_key_with_nonce(p, pk, nonce)
    \/ \E p \in promises, pk \in KeyPublicKeys, allowance \in KeyAllowances,
          receiver_id \in KeyReceivers, function_names \in KeyFunctionNames :
           Within(MaxKeyOps) /\ add_access_key(p, pk, allowance, receiver_id, function_names)
    \/ \E p \in promises, pk \in KeyPublicKeys, allowance \in KeyAllowances,
          receiver_id \in KeyReceivers, function_names \in KeyFunctionNames,
          nonce \in KeyNonces :
           /\ Within(MaxKeyOps)
           /\ add_access_key_with_nonce(p, pk, allowance, receiver_id, function_names, nonce)
    \/ EndCall

SpecKeys == Init /\ [][NextKeys]_vars

\* ------------------------------------------------------------ host execution
\* The host scheduler runs the requested graph after the method call has ended:
\* a batch opened by promise_batch_then starts only when the promise it was chained
\* to has completed; a promise made by promise_and has no batch and has completed
\* when both promises it joins have.
CreatedBy(x) == hostLog[CHOOSE k \in 1..Len(hostLog) : hostLog[k].ret = x]

RECURSIVE HostDone(_)
HostDone(x) ==
    IF CreatedBy(x).fn = "promise_and"
    THEN \A j \in 1..Len(CreatedBy(x).promise_idx) : HostDone(CreatedBy(x).promise_idx[j])
    ELSE x \in completed

HostBatches == { x \in HostIndices : CreatedBy(x).fn # "promise_and" }

HostStart(x) ==
    /\ returned
    /\ x \in HostBatches \ started
    /\ CreatedBy(x).fn = "promise_batch_then" => HostDone(CreatedBy(x).promise_idx[1])
    /\ started' = started \cup {x}
    /\ UNCHANGED <<promises, hostLog, writer, aborted, returned, completed, trace, definitions, described>>

HostComplete(x) ==
    /\ x \in started \ completed
    /\ completed' = completed \cup {x}
    /\ UNCHANGED <<promises, hostLog, writer, aborted, returned, started, trace, definitions, described>>

\* A method call that builds a promise graph, followed by the host's execution.
NextExec ==
    \/ \E a \in ComposeAccounts : Within(MaxExecOps) /\ Fresh(MaxExecPromises) /\ new(a)
    \/ \E a, b \in promises : Within(MaxExecOps) /\ Fresh(MaxExecPromises) /\ and(a, b)
    \/ \E p \in promises, a \in ComposeAccounts :
           Within(MaxExecOps) /\ Fresh(MaxExecPromises) /\ then(p, a)
    \/ EndCall
    \/ \E x \in HostIndices : HostStart(x)
    \/ \E x \in HostIndices : HostComplete(x)

SpecExec == Init /\ [][NextExec]_vars

\* The method body of the scenario
\*   Promise::new(A).create_account().transfer(n).then(B)
\*       .and(Promise::new(C).create_account()).then(D)
\* for any accounts A, B, C, D and amount n. Rust evaluates the receiver of
\* `and` before its argument. Each step takes the handle an earlier step returned.
ScenarioAccounts == {"A", "B", "C", "D"}
Step(k) == Running /\ Len(trace) = k - 1

NextScenario ==
    \/ \E a \in ScenarioAccounts : Step(1) /\ new(a)
    \/ Step(2) /\ create_account(trace[1].ret)
    \/ \E amount \in TransferInputs : Step(3) /\ transfer(trace[2].ret, amount)
    \/ \E b \in ScenarioAccounts : Step(4) /\ then(trace[3].ret, b)
    \/ \E c \in ScenarioAccounts : Step(5) /\ new(c)
    \/ Step(6) /\ create_account(trace[5].ret)
    \/ Step(7) /\ and(trace[4].ret, trace[6].ret)
    \/ \E d \in ScenarioAccounts : Step(8) /\ then(trace[7].ret, d)
    \/ Step(9) /\ EndCall

SpecScenario == Init /\ [][NextScenario]_vars

\* ================================================================ claims
AppendOps ==
    { "create_account", "deploy_contract", "function_call", "transfer", "stake",
      "add_full_access_key", "add_full_access_key_with_nonce", "add_access_key",
      "add_access_key_with_nonce", "delete_key", "delete_account" }

\* The env function each action-append method stands for.
AppendFn(op) ==
    CASE op = "create_account" -> "promise_batch_action_create_account"
      [] op = "deploy_contract" -> "promise_batch_action_deploy_contract"
      [] op = "function_call" -> "promise_batch_action_function_call"
      [] op = "transfer" -> "promise_batch_action_transfer"
      [] op = "stake" -> "promise_batch_action_stake"
      [] op \in {"add_full_access_key", "add_full_access_key_with_nonce"} ->
             "promise_batch_action_add_key_with_full_access"
      [] op \in {"add_access_key", "add_access_key_with_nonce"} ->
             "promise_batch_action_add_key_with_function_call"
      [] op = "delete_key" -> "promise_batch_action_delete_key"
      [] op = "delete_account" -> "promise_batch_action_delete_account"

AppendFns == { AppendFn(op) : op \in AppendOps }

IsAppendCall(c) == c.fn \in AppendFns

\* Positions of the trace / of the host log.
Calls == 1..Len(trace)
HostCalls == 1..Len(hostLog)

\* The env calls issued by the i-th call of the trace.
HostAfter(i) == IF i < Len(trace) THEN trace[i + 1].host_before ELSE Len(hostLog)
IssuedBy(i) == SubSeq(hostLog, trace[i].host_before + 1, HostAfter(i))

\* Every promise index that occurs in a call made or in an env call issued.
SeenIndices ==
    UNION { { hostLog[k].promise_idx[j] : j \in 1..Len(hostLog[k].promise_idx) } : k \in HostCalls }
    \cup { trace[i].self.index.x : i \in Calls }
    \cup HostIndices

\* The action appends the method body asked for on the Single handle with index h,
\* as the env calls they stand for, in call order.
AppendsAsked(h) ==
    LET asked == SelectSeq(trace, LAMBDA e :
                     /\ e.op \in AppendOps
                     /\ e.self.index = Single(h))
    IN  [ i \in 1..Len(asked) |->
            HostCall(AppendFn(asked[i].op), <<h>>, asked[i].args, NoIndex) ]

\* The append calls the host received on index h, in order.
AppendsReceived(h) ==
    SelectSeq(hostLog, LAMBDA c : IsAppendCall(c) /\ c.promise_idx = <<h>>)

\* C1: the appends the host receives on a Single handle's index are exactly the
\* appends called on that handle: one env call per method call, on the same index,
\* in call order, with the caller's parameters; none goes to any other index.
C1_AppendsInOrder ==
    /\ \A h \in SeenIndices : AppendsReceived(h) = AppendsAsked(h)
    /\ \A k \in HostCalls :
           IsAppendCall(hostLog[k]) => Len(hostLog[k].promise_idx) = 1

\* Two different appends called one after the other on the same Single handle.
C1_Witness ==
    \E i, j \in Calls :
        /\ i < j
        /\ trace[i].op = "function_call"
        /\ trace[j].op = "transfer"
        /\ trace[j].args.amount = 1000
        /\ trace[i].self.index = trace[j].self.index
        /\ trace[i].self.index.tag = "Single"
        /\ trace[j].result = "Ok"

\* C2: an append called on a Joint handle aborts with the joint-promise message;
\* the only env call it issues is the abort, no append ever reaches the host on
\* that index, and nothing is called after the abort.
C2_JointAppendAborts ==
    \A i \in Calls :
        (trace[i].op \in AppendOps /\ trace[i].self.index.tag = "Joint") =>
            /\ trace[i].result = "abort"
            /\ aborted
            /\ i = Len(trace)
            /\ IssuedBy(i) =
                   << HostCall("panic_str", <<>>,
                               [NoArgs EXCEPT !.message = "Cannot add action to a joint promise."],
                               NoIndex) >>
            /\ AppendsReceived(trace[i].self.index.x) = <<>>

\* An append was called on the result of `and`.
C2_Witness ==
    \E i \in Calls :
        /\ trace[i].op \in AppendOps
        /\ trace[i].self.index.tag = "Joint"
        /\ aborted

\* Serializations of a Promise, directly or as the Promise variant of a wrapper.
IsPromiseSerialize(e) ==
    \/ e.op \in {"Promise::borsh_serialize", "Promise::serde_serialize"}
    \/ /\ e.op \in {"PromiseOrValue::borsh_serialize", "PromiseOrValue::serde_serialize"}
       /\ e.value = NoValue
IsBorsh(e) == e.op \in {"Promise::borsh_serialize", "PromiseOrValue::borsh_serialize"}
IsSerde(e) == e.op \in {"Promise::serde_serialize", "PromiseOrValue::serde_serialize"}

\* The handle a serialization was given is left with its flag set.
LeavesFlagSet(i) ==
    /\ trace[i].ret = [trace[i].self EXCEPT !.should_return = TRUE]
    /\ (i = Len(trace) => trace[i].ret \in promises)

C4_MarkedHandleIsResult ==
    returned =>
        \A p \in promises :
            p.should_return =>
                \E k \in HostCalls :
                    /\ hostLog[k].fn = "promise_return"
                    /\ hostLog[k].promise_idx = <<index(p.index)>>

\* Serializations of the Value variant of a wrapper.
IsValueSerialize(e) ==
    /\ e.op \in {"PromiseOrValue::borsh_serialize", "PromiseOrValue::serde_serialize"}
    /\ e.value # NoValue

\* C10: serializing Value(x) writes what serializing x alone writes and has x's
\* result (its error when x fails), sets no handle's return flag and issues no
\* env call.
C10_ValueAsBare ==
    [][ (Len(trace') = Len(trace) + 1 /\ IsValueSerialize(trace'[Len(trace')])) =>
            LET e == trace'[Len(trace')]
                bare == IF IsBorsh(e) THEN borsh_value(e.value) ELSE json_value(e.value)
            IN  /\ e.wrote = bare.wrote
                /\ e.result = bare.result
                /\ writer' = writer \o bare.wrote
                /\ promises' = promises
                /\ hostLog' = hostLog ]_vars

\* A value was serialized through the wrapper while a handle is held, and so was
\* a value whose own serialization fails.
C10_Witness ==
    /\ promises # {}
    /\ \E i, j \in Calls :
           /\ trace[i].op = "PromiseOrValue::borsh_serialize"
           /\ trace[i].value.ty = "String"
           /\ trace[i].wrote = <<2, 0, 0, 0, 104, 105>>
           /\ trace[j].op = "PromiseOrValue::borsh_serialize"
           /\ trace[j].value.ty = "failing"
           /\ trace[j].result = "Err"

\* The env call the k-th step of the scenario is to issue, with the account and
\* amount the body passed at that step and the indices the host returned earlier.
Account(k) == [NoArgs EXCEPT !.account_id = trace[k].args.account_id]
ScenarioExpected(k) ==
    CASE k = 1 -> HostCall("promise_batch_create", <<>>, Account(1), hostLog[1].ret)
      [] k = 2 -> HostCall("promise_batch_action_create_account", <<hostLog[1].ret>>,
                           NoArgs, NoIndex)
      [] k = 3 -> HostCall("promise_batch_action_transfer", <<hostLog[1].ret>>,
                           [NoArgs EXCEPT !.amount = trace[3].args.amount], NoIndex)
      [] k = 4 -> HostCall("promise_batch_then", <<hostLog[1].ret>>, Account(4),
                           hostLog[4].ret)
      [] k = 5 -> HostCall("promise_batch_create", <<>>, Account(5), hostLog[5].ret)
      [] k = 6 -> HostCall("promise_batch_action_create_account", <<hostLog[5].ret>>,
                           NoArgs, NoIndex)
      [] k = 7 -> HostCall("promise_and", <<hostLog[4].ret, hostLog[5].ret>>, NoArgs,
                           hostLog[7].ret)
      [] k = 8 -> HostCall("promise_batch_then", <<hostLog[7].ret>>, Account(8),
                           hostLog[8].ret)

\* C5: after each step of the scenario the host has received exactly the calls
\* open-batch(A), append(create_account), append(transfer, n), chain(to B),
\* open-batch(C), append(create_account), join, chain(to D) up to that step, in
\* that order, each on the index the host returned from the step that produced
\* the handle, and each creating step hands the returned index to its handle.
C5_ScenarioCalls ==
    /\ Len(hostLog) = Len(trace)
    /\ \A k \in Calls :
           /\ hostLog[k] = ScenarioExpected(k)
           /\ hostLog[k].ret # NoIndex => trace[k].ret.index.x = hostLog[k].ret

\* The scenario has run to its end on accounts A, B, C, D with amount 1000.
C5_Witness ==
    /\ Len(trace) = 8
    /\ returned
    /\ trace[1].args.account_id = "A"
    /\ trace[3].args.amount = 1000
    /\ trace[4].args.account_id = "B"
    /\ trace[5].args.account_id = "C"
    /\ trace[8].args.account_id = "D"
    /\ hostLog[8].fn = "promise_batch_then"

IsAnd(i) == trace[i].op = "and"
IsThen(i) == trace[i].op = "then"

\* C6: a.and(b) issues exactly one env call, promise_and over [index of a, index
\* of b] in that order, and returns a Joint handle with the index the host
\* returned, which is neither a's nor b's.
C6_AndJoins ==
    \A i \in Calls :
        IsAnd(i) =>
            LET a == index(trace[i].self.index)
                b == index(trace[i].other.index)
                r == index(trace[i].ret.index)
            IN  /\ IssuedBy(i) = << HostCall("promise_and", <<a, b>>, NoArgs, r) >>
                /\ trace[i].ret.index.tag = "Joint"
                /\ r \notin {a, b, NoIndex}

\* Two Joint handles have been joined.
C6_Witness ==
    \E i \in Calls :
        /\ IsAnd(i)
        /\ trace[i].self.index.tag = "Joint"
        /\ trace[i].other.index.tag = "Joint"
        /\ trace[i].ret \in promises

\* C7: p.then(T) issues exactly one env call, promise_batch_then(index of p, T),
\* and returns a Single handle with the index the host returned; that index is not
\* p's, no append has been issued on it when `then` returns, and appends called on
\* the returned handle afterwards do not abort, whether p was Single or Joint.
C7_ThenChains ==
    \A i \in Calls :
        IsThen(i) =>
            LET p == index(trace[i].self.index)
                r == index(trace[i].ret.index)
            IN  /\ IssuedBy(i) =
                       << HostCall("promise_batch_then", <<p>>, Account(i), r) >>
                /\ trace[i].ret.index.tag = "Single"
                /\ r \notin {p, NoIndex}
                /\ \A k \in 1..HostAfter(i) :
                       ~(IsAppendCall(hostLog[k]) /\ hostLog[k].promise_idx = <<r>>)
                /\ \A j \in Calls :
                       (j > i /\ trace[j].op \in AppendOps
                              /\ index(trace[j].self.index) = r) =>
                           /\ trace[j].result = "Ok"
                           /\ IssuedBy(j) =
                                  << HostCall(AppendFn(trace[j].op), <<r>>,
                                              trace[j].args, NoIndex) >>

\* A handle chained after a Joint handle has been given an action.
C7_Witness ==
    \E i, j \in Calls :
        /\ IsThen(i)
        /\ trace[i].self.index.tag = "Joint"
        /\ j > i
        /\ trace[j].op = "create_account"
        /\ trace[j].self = trace[i].ret
        /\ trace[j].result = "Ok"

\* C8: once a.and(b) has been called, no append is issued to the host on the
\* index of a or of b, and the method body holds no handle with either index.
C8_MergedNotAppendable ==
    \A i \in Calls :
        IsAnd(i) =>
            LET merged == { index(trace[i].self.index), index(trace[i].other.index) }
            IN  /\ \A k \in HostCalls :
                       (k > trace[i].host_before /\ IsAppendCall(hostLog[k])) =>
                           \A j \in 1..Len(hostLog[k].promise_idx) :
                               hostLog[k].promise_idx[j] \notin merged
                /\ \A p \in promises : index(p.index) \notin merged

\* After a join, an action was appended to a handle that was not merged, and the
\* body still holds the join result.
C8_Witness ==
    \E i, j \in Calls :
        /\ IsAnd(i)
        /\ j > i
        /\ trace[j].op = "create_account"
        /\ trace[j].result = "Ok"
        /\ trace[i].ret \in promises

\* The handle with index x, as the method body composed it, has completed: the
\* result of a.and(b) when both a and b have, any other handle when its batch has.
RECURSIVE Completed(_)
Completed(x) ==
    IF \E i \in Calls : IsAnd(i) /\ index(trace[i].ret.index) = x
    THEN LET i == CHOOSE i \in Calls : IsAnd(i) /\ index(trace[i].ret.index) = x
         IN  /\ Completed(index(trace[i].self.index))
             /\ Completed(index(trace[i].other.index))
    ELSE x \in completed

\* C9: in the host's execution of the graph the method body requested, the batch
\* of the handle returned by p.then(T) has not started unless p has completed;
\* for p = a.and(b), unless both a and b have completed.
C9_ThenAfterCompletion ==
    \A i \in Calls :
        (IsThen(i) /\ index(trace[i].ret.index) \in started) =>
            Completed(index(trace[i].self.index))

\* The batch chained to a join has started, after both joined batches completed.
C9_Witness ==
    \E i, j \in Calls :
        /\ IsAnd(i)
        /\ IsThen(j)
        /\ trace[j].self = trace[i].ret
        /\ index(trace[j].ret.index) \in started
        /\ index(trace[i].self.index) \in completed
        /\ index(trace[i].other.index) \in completed

\* The call a step has just made, when the step is a builder / serializer call.
MadeCall == Len(trace') = Len(trace) + 1
Made == trace'[Len(trace')]

\* C11: as_return on a handle sets that handle's return flag and nothing else: the
\* handle keeps its kind and index, no env call is issued (so no batch changes),
\* nothing is written, and every other handle the body holds is left as it was.
C11_AsReturnFrame ==
    [][ (MadeCall /\ Made.op = "as_return") =>
            /\ Made.self \in promises
            /\ Made.ret = [Made.self EXCEPT !.should_return = TRUE]
            /\ Made.ret.index = Made.self.index
            /\ promises' = (promises \ {Made.self}) \cup {Made.ret}
            /\ UNCHANGED <<hostLog, writer, aborted, returned, started, completed>> ]_vars

\* as_return was just called on an unmarked handle with an action in its batch,
\* while the body holds another handle that is still unmarked.
C11_Witness ==
    /\ trace # <<>>
    /\ trace[Len(trace)].op = "as_return"
    /\ ~trace[Len(trace)].self.should_return
    /\ AppendsReceived(index(trace[Len(trace)].self.index)) # <<>>
    /\ \E q \in promises : q # trace[Len(trace)].ret /\ ~q.should_return

\* What marking a handle and doing nothing else leaves behind: the handle with its
\* flag set, the same env calls, nothing written.
OnlyMarks(e) ==
    /\ e.self \in promises
    /\ promises' = (promises \ {e.self}) \cup {[e.self EXCEPT !.should_return = TRUE]}
    /\ hostLog' = hostLog

CreatingOps == {"new", "and", "then"}
CreatedBefore(i) == Cardinality({ j \in 1..(i - 1) : trace[j].op \in CreatingOps })
ExpectedIssue(i) ==
    LET e == trace[i]
        self == e.self.index
    IN  CASE e.op = "new" ->
                 << HostCall("promise_batch_create", <<>>, e.args, CreatedBefore(i)) >>
          [] e.op = "then" ->
                 << HostCall("promise_batch_then", <<index(self)>>, e.args,
                             CreatedBefore(i)) >>
          [] e.op = "and" ->
                 << HostCall("promise_and", <<index(self), index(e.other.index)>>,
                             NoArgs, CreatedBefore(i)) >>
          [] e.op \in AppendOps /\ self.tag = "Single" ->
                 << HostCall(AppendFn(e.op), <<index(self)>>, e.args, NoIndex) >>
          [] e.op \in AppendOps /\ self.tag # "Single" ->
                 << HostCall("panic_str", <<>>,
                             [NoArgs EXCEPT !.message = JointMessage], NoIndex) >>
          [] OTHER -> <<>>

\* C13: the env calls of a method body are those of its graph-building calls alone,
\* each issued when the call is made and none depending on a return flag; as_return
\* and the serializers issue none. Bodies that differ only in marking and
\* serialization therefore issue the same calls, and an unmarked, unserialized
\* handle has all its actions sent.
C13_CallsIgnoreMarks ==
    \A i \in Calls :
        /\ IssuedBy(i) = ExpectedIssue(i)
        /\ trace[i].op \in CreatingOps =>
               index(trace[i].ret.index) = CreatedBefore(i)

\* A handle was marked, then serialized, then given an action, which is at the host.
C13_Witness ==
    \E i, j, k \in Calls :
        /\ i < j
        /\ j < k
        /\ trace[i].op = "as_return"
        /\ trace[j].op = "Promise::serde_serialize"
        /\ trace[j].self = trace[i].ret
        /\ trace[k].op = "transfer"
        /\ trace[k].self = trace[j].ret
        /\ AppendsReceived(index(trace[k].self.index)) # <<>>

\* The promise indices the host returned before its k-th call, and those among
\* them that promise_and returned.
ReturnedBefore(k) ==
    { hostLog[m].ret : m \in { n \in 1..(k - 1) : hostLog[n].fn \in CreatingFns } }
JoinedBefore(k) ==
    { hostLog[m].ret : m \in { n \in 1..(k - 1) : hostLog[n].fn = "promise_and" } }

\* C14: every promise index passed to the host, in an append, a join or a chain,
\* is one the host returned from an earlier promise_batch_create, promise_and or
\* promise_batch_then; and no append is passed an index that promise_and returned.
C14_IndicesThreaded ==
    \A k \in HostCalls :
        /\ \A j \in 1..Len(hostLog[k].promise_idx) :
               hostLog[k].promise_idx[j] \in ReturnedBefore(k)
        /\ IsAppendCall(hostLog[k]) =>
               /\ Len(hostLog[k].promise_idx) = 1
               /\ hostLog[k].promise_idx[1] \notin JoinedBefore(k)

\* The host has received a join and a chain on the joined index, and an append
\* was then called on a Joint handle.
C14_Witness ==
    /\ \E k \in HostCalls :
           /\ hostLog[k].fn = "promise_batch_then"
           /\ hostLog[k].promise_idx[1] \in JoinedBefore(k)
    /\ \E i \in Calls : trace[i].op \in AppendOps /\ trace[i].self.index.tag = "Joint"

\* C15: the schema of PromiseOrValue<T> is the schema of T: the same declaration,
\* and the same definitions added to the map, whichever variant the value at hand
\* holds; nothing of PromiseOrValue or of Promise is declared or defined.
C15_SchemaOfT ==
    described.of = "PromiseOrValue" =>
        /\ described.declaration = t_declaration(described.ty)
        /\ definitions = t_add_definitions_recursively(described.ty, described.before)
        /\ described.declaration \notin {"PromiseOrValue", "Promise"}
        /\ \A d \in definitions \ described.before : d[1] \in Types

\* The schema of PromiseOrValue<Option<Vec<u32>>> was asked for with a value that
\* holds a Promise, and added the two definitions of Option<Vec<u32>>.
C15_Witness ==
    /\ described.of = "PromiseOrValue"
    /\ described.holds = "Promise"
    /\ described.ty = "Option<Vec<u32>>"
    /\ described.before = {}
    /\ Cardinality(definitions) = 2

\* C16: the handle returned by new, by a.and(b) and by p.then(T) starts with
\* its return flag false, whatever the flags of a, b and p were.
C16_FlagNotInherited ==
    \A i \in Calls :
        trace[i].op \in {"new", "and", "then"} =>
            /\ trace[i].result = "Ok"
            /\ trace[i].ret.should_return = FALSE

\* A join of two marked handles, a join with one marked operand and a chain after
\* a marked handle have been made.
C16_Witness ==
    /\ \E i \in Calls :
           /\ trace[i].op = "and"
           /\ trace[i].self.should_return
           /\ trace[i].other.should_return
    /\ \E i \in Calls :
           /\ trace[i].op = "then"
           /\ trace[i].self.should_return

\* The indices a host call was given.
Inputs(k) == { hostLog[k].promise_idx[j] : j \in 1..Len(hostLog[k].promise_idx) }

\* C17: each index is an input of a join or chain host call at most once in
\* total, and no append is requested on an index after it was passed to chain.
C17_ConsumedOnce ==
    \A k \in HostCalls :
        hostLog[k].fn \in {"promise_and", "promise_batch_then"} =>
            /\ Cardinality(Inputs(k)) = Len(hostLog[k].promise_idx)
            /\ \A l \in (k + 1)..Len(hostLog) :
                   (\/ hostLog[l].fn \in {"promise_and", "promise_batch_then"}
                    \/ /\ hostLog[k].fn = "promise_batch_then"
                       /\ IsAppendCall(hostLog[l]))
                       => Inputs(l) \cap Inputs(k) = {}

\* An index that had an append was chained, the index it gave had an append
\* and was joined with another, and the joint index was chained in turn.
C17_Witness ==
    \E b \in HostCalls :
        /\ hostLog[b].fn = "promise_batch_then"
        /\ \E a \in 1..(b - 1) :
               /\ IsAppendCall(hostLog[a])
               /\ hostLog[a].promise_idx[1] = hostLog[b].promise_idx[1]
        /\ \E d \in HostCalls :
               /\ hostLog[d].fn = "promise_and"
               /\ hostLog[b].ret \in { hostLog[d].promise_idx[j] : j \in 1..2 }
               /\ \E c \in 1..(d - 1) :
                      /\ IsAppendCall(hostLog[c])
                      /\ hostLog[c].promise_idx[1] = hostLog[b].ret
               /\ \E e \in HostCalls :
                      /\ hostLog[e].fn = "promise_batch_then"
                      /\ hostLog[e].promise_idx[1] = hostLog[d].ret

\* C18: a handle whose return flag is true keeps it true through every step
\* that leaves it with the caller, and an action-append call returns the handle
\* it was called on, subtype, index and flag unchanged, in place of it.
C18_FlagMonotone ==
    [][ /\ \A p \in promises : p.should_return =>
               \A q \in promises' : q.index = p.index => q.should_return
        /\ (MadeCall /\ Made.op \in AppendOps /\ Made.result = "Ok") =>
               /\ Made.ret = Made.self
               /\ promises' = promises ]_vars

\* A handle marked by as_return had an action appended and was then serialized.
C18_Witness ==
    \E i \in Calls :
        /\ trace[i].op = "as_return"
        /\ \E j \in (i + 1)..Len(trace) :
               /\ trace[j].op \in AppendOps
               /\ trace[j].self = trace[i].ret
               /\ trace[j].result = "Ok"
               /\ \E k \in (j + 1)..Len(trace) :
                      /\ IsPromiseSerialize(trace[k])
                      /\ trace[k].self = trace[j].ret
                      /\ trace[k].ret \in promises

\* The one env call the i-th call of the trace issued, as the host saw it.
SameRequest(i, j) ==
    /\ IssuedBy(i) = IssuedBy(j)
    /\ trace[i].result = trace[j].result
    /\ trace[i].ret = trace[j].ret

\* C19: on the same handle, add_full_access_key(pk) issues the host append that
\* add_full_access_key_with_nonce(pk, 0) issues, add_access_key(pk, allowance,
\* receiver, names) the one add_access_key_with_nonce(pk, allowance, receiver,
\* names, 0) issues, and the restricted-key request carries the caller's nonce
\* as its nonce and the caller's allowance as its allowance.
C19_NonceDefaultsToZero ==
    /\ \A i, j \in Calls :
           (/\ trace[i].op = "add_full_access_key"
            /\ trace[j].op = "add_full_access_key_with_nonce"
            /\ trace[j].self = trace[i].self
            /\ trace[j].args = [trace[i].args EXCEPT !.nonce = 0])
               => SameRequest(i, j)
    /\ \A i, j \in Calls :
           (/\ trace[i].op = "add_access_key"
            /\ trace[j].op = "add_access_key_with_nonce"
            /\ trace[j].self = trace[i].self
            /\ trace[j].args = [trace[i].args EXCEPT !.nonce = 0])
               => SameRequest(i, j)
    /\ \A i \in Calls :
           trace[i].op \in {"add_access_key", "add_access_key_with_nonce"} =>
               /\ Len(IssuedBy(i)) = 1
               /\ IssuedBy(i)[1].fn = "promise_batch_action_add_key_with_function_call"
               /\ IssuedBy(i)[1].args.nonce = trace[i].args.nonce
               /\ IssuedBy(i)[1].args.allowance = trace[i].args.allowance

\* Both pairs were called on one handle with nonce 0, and a restricted key was
\* added with a nonce and an allowance that differ.
C19_Witness ==
    /\ \E i, j \in Calls :
           /\ trace[i].op = "add_full_access_key"
           /\ trace[j].op = "add_full_access_key_with_nonce"
           /\ trace[j].self = trace[i].self
           /\ trace[j].args.nonce = 0
    /\ \E i, j \in Calls :
           /\ trace[i].op = "add_access_key"
           /\ trace[j].op = "add_access_key_with_nonce"
           /\ trace[j].self = trace[i].self
           /\ trace[j].args = [trace[i].args EXCEPT !.nonce = 0]
           /\ trace[j].args.allowance = 5

====
